---------------------------- MODULE Spec2Model ----------------------------
(***************************************************************************)
(* PageRank atop MapReduce (src/pagerank.py).                              *)
(*                                                                         *)
(* Three mrjob jobs chained by the __main__ driver:                        *)
(*   PageLinkCalculate  documents -> out/0   (page, "1.0", links)          *)
(*   RankCalculate      out/i     -> out/i+1 (page, new rank, links), x4   *)
(*   RankingMapper      out/4     -> out/result (rounded rank, page)       *)
(*                                                                         *)
(* A text is a sequence of atoms.  An atom is a one-character string, or   *)
(* the decimal numeral of a number (RankAtom, CountAtom): no string        *)
(* operation of the program cuts inside a numeral, so a numeral is kept    *)
(* whole.  Ranks are exact rationals <<num, den>>; the rounding of IEEE    *)
(* doubles and of str(float) is not modelled.                              *)
(*                                                                         *)
(* A snapshot is the set of lines of an output directory.  A line is the   *)
(* (key, value) pair handed to mrjob's JSONProtocol, value = numeral of    *)
(* `rank` followed by `rest`; RawLine is the text the next job reads.      *)
(***************************************************************************)
EXTENDS Integers, Sequences, FiniteSets, TLC

VARIABLES
    docs,       \* the corpus: documents handed to PageLinkCalculate.mapper
    pc,         \* position of the __main__ driver
    i,          \* loop variable of `for i in range(4)`
    out,        \* out[k]: the lines of directory out/k/
    written,    \* the directories out/k/ written so far
    result,     \* the lines of out/result
    log,        \* the make_runner(input_path, output_dir) calls made so far
    link_text,  \* SpecLink: a body text handed to the link extraction
    link_out    \* SpecLink: the edge targets extracted from link_text

vars == <<docs, pc, i, out, written, result, log, link_text, link_out>>

---------------------------------------------------------------------------
(* Bounds of the model.                                                    *)

\* documents in the corpus
MaxDocs == 2
\* link tokens in the corpus, all documents together
MaxLinks == 2
\* characters of a body text in SpecLink
MaxText == 5

---------------------------------------------------------------------------
(* Characters.                                                             *)

TAB == "\t"
NL == "\n"
QUOTE == "\""
BSLASH == "\\"
COMMA == ","
SPACE == " "
USCORE == "_"
LBRACKET == "["
RBRACKET == "]"
PIPE == "|"
HASH == "#"
BANG == "!"
AMP == "&"

\* what r'\s' matches among the characters of the model
WhiteSpace == {SPACE, TAB, NL}

---------------------------------------------------------------------------
(* Python string operations, on sequences of atoms.                        *)

Min(S) == CHOOSE x \in S : \A y \in S : x <= y

\* s[a:b] with 1-based inclusive positions; empty when a > b
Slice(s, a, b) == IF a > b THEN <<>> ELSE SubSeq(s, a, b)

\* whether `sep` occurs in s at position p
OccursAt(s, sep, p) ==
    /\ p >= 1
    /\ p + Len(sep) - 1 <= Len(s)
    /\ \A k \in 1..Len(sep) : s[p + k - 1] = sep[k]

\* s.strip(c) for a one-character c
Strip(s, c) ==
    LET keep == {p \in 1..Len(s) : s[p] # c}
    IN  IF keep = {} THEN <<>>
        ELSE Slice(s, Min(keep), CHOOSE p \in keep : \A q \in keep : q <= p)

\* s.split(sep): the segments between the non-overlapping occurrences of
\* sep, found left to right; always at least one segment
RECURSIVE Split(_, _)
Split(s, sep) ==
    LET hits == {p \in 1..Len(s) : OccursAt(s, sep, p)}
    IN  IF hits = {} THEN <<s>>
        ELSE LET p == Min(hits)
             IN  <<Slice(s, 1, p - 1)>>
                     \o Split(Slice(s, p + Len(sep), Len(s)), sep)

\* s.replace(old, new): non-overlapping occurrences, left to right
RECURSIVE Replace(_, _, _)
Replace(s, old, new) ==
    LET hits == {p \in 1..Len(s) : OccursAt(s, old, p)}
    IN  IF hits = {} THEN s
        ELSE LET p == Min(hits)
             IN  Slice(s, 1, p - 1) \o new
                     \o Replace(Slice(s, p + Len(old), Len(s)), old, new)

\* sep.join(parts)
RECURSIVE Join(_, _)
Join(parts, sep) ==
    IF parts = <<>> THEN <<>>
    ELSE IF Len(parts) = 1 THEN parts[1]
    ELSE parts[1] \o sep \o Join(Tail(parts), sep)

\* re.sub(r'\s', '_', s)
SubWhiteSpace(s) ==
    [p \in 1..Len(s) |-> IF s[p] \in WhiteSpace THEN USCORE ELSE s[p]]

---------------------------------------------------------------------------
(* Link extraction: link_pat, link_page_pat, _get_wiki_page_from_link.     *)

\* Python's None: no match of a pattern, an absent title or text, the key
\* of a record made without a title
None == <<"<None>">>

\* link_pat = "\[.+?\]" matched at position p of s: the end position of
\* the match, 0 when there is none ('.' does not match a newline, '+?'
\* takes the first closing bracket after at least one character)
LinkPatEnd(s, p) ==
    LET ends == {q \in (p + 2)..Len(s) :
                    /\ s[q] = RBRACKET
                    /\ \A k \in (p + 1)..(q - 1) : s[k] # NL}
    IN  IF p <= Len(s) /\ s[p] = LBRACKET /\ ends # {} THEN Min(ends) ELSE 0

\* re.findall(link_pat, s) from position p on: non-overlapping matches,
\* left to right
RECURSIVE FindAllFrom(_, _)
FindAllFrom(s, p) ==
    IF p > Len(s) THEN <<>>
    ELSE LET q == LinkPatEnd(s, p)
         IN  IF q = 0 THEN FindAllFrom(s, p + 1)
             ELSE <<Slice(s, p, q)>> \o FindAllFrom(s, q + 1)

FindAllLinks(s) == FindAllFrom(s, 1)

LinkDelimiters == {RBRACKET, PIPE, HASH}

\* link_page_pat = '\[{,2}(.+?)([\]|#])' tried at start position p with b
\* opening brackets consumed: the lengths group(1) can have
GroupLengths(s, p, b) ==
    {n \in 1..Len(s) :
        /\ p + b + n <= Len(s)
        /\ \A k \in 0..(b - 1) : s[p + k] = LBRACKET
        /\ \A k \in 0..(n - 1) : s[p + b + k] # NL
        /\ s[p + b + n] \in LinkDelimiters}

\* the bracket counts '\[{,2}' can take at p with the rest still matching
BracketCounts(s, p) == {b \in 0..2 : GroupLengths(s, p, b) # {}}

\* re.search(link_page_pat, s).group(1): leftmost start, as many opening
\* brackets as still match (greedy), shortest group (lazy)
SearchLinkPage(s) ==
    LET starts == {p \in 1..Len(s) : BracketCounts(s, p) # {}}
    IN  IF starts = {} THEN None
        ELSE LET p == Min(starts)
                 b == CHOOSE c \in BracketCounts(s, p) :
                          \A d \in BracketCounts(s, p) : d <= c
                 n == Min(GroupLengths(s, p, b))
             IN  Slice(s, p + b, p + b + n - 1)

\* _get_wiki_page_from_link as the example `[[Foo, Bar#section]]` -> `FooBar`
\* would have it: whitespace deleted, not underscored
get_wiki_page_deleting_whitespace(link) ==
    LET grp == SearchLinkPage(link)
    IN  IF grp = None THEN None
        ELSE Replace(Replace(SelectSeq(grp, LAMBDA c : c \notin WhiteSpace),
                             <<COMMA>>, <<>>),
                     <<AMP, "a", "m", "p", ";">>, <<AMP>>)

\* PageLinkCalculate._get_wiki_page_from_link
get_wiki_page_from_link(link) ==
    LET grp == SearchLinkPage(link)
    IN  IF grp = None THEN None
        ELSE Replace(Replace(SubWhiteSpace(grp), <<COMMA>>, <<>>),
                     <<AMP, "a", "m", "p", ";">>, <<AMP>>)

\* the loop of PageLinkCalculate.mapper over the links of a body text: the
\* pages it yields, in order
RECURSIVE OtherPages(_)
OtherPages(links) ==
    IF links = <<>> THEN <<>>
    ELSE LET other_page == get_wiki_page_from_link(links[1])
         IN  (IF other_page = None \/ other_page = <<>> THEN <<>>
              ELSE <<other_page>>) \o OtherPages(Tail(links))

ExtractTargets(text) == OtherPages(FindAllLinks(text))

---------------------------------------------------------------------------
(* Numbers.  A rank is an exact rational <<num, den>> in lowest terms.     *)

RECURSIVE GCD(_, _)
GCD(a, b) == IF b = 0 THEN a ELSE GCD(b, a % b)

Norm(n, d) == LET g == GCD(n, d) IN <<n \div g, d \div g>>

RAdd(a, b) ==
    LET l == (a[2] \div GCD(a[2], b[2])) * b[2]
    IN  Norm(a[1] * (l \div a[2]) + b[1] * (l \div b[2]), l)

RSub(a, b) == RAdd(a, <<0 - b[1], b[2]>>)

RMul(a, b) ==
    LET g1 == GCD(a[1], b[2])
        g2 == GCD(b[1], a[2])
    IN  IF a[1] = 0 \/ b[1] = 0 THEN <<0, 1>>
        ELSE Norm((a[1] \div g1) * (b[1] \div g2),
                  (a[2] \div g2) * (b[2] \div g1))

\* page_rank / count_out_links
RDivInt(a, n) == RMul(a, <<1, n>>)

DAMPING_FACTOR == <<17, 20>>

\* str(x) of a float x: its numeral, one atom
RankAtom(r) == ToString(r[1]) \o "/" \o ToString(r[2])

\* str(n) of an int n: its numeral, one atom
CountAtom(n) == ToString(n)

\* float(text), for the numerals of the ranks in `ranks` (a text that is no
\* numeral makes float() raise: the model then has no value either)
ParseFloat(text, ranks) == CHOOSE r \in ranks : text = <<RankAtom(r)>>

\* int(text), for the numerals of the counts up to `most`
ParseInt(text, most) == CHOOSE n \in 0..most : text = <<CountAtom(n)>>

\* float("{0:.2f}".format(r)): r rounded to hundredths, ties to even
Round2(r) ==
    LET g == GCD(100, r[2])
        n == r[1] * (100 \div g)
        d == r[2] \div g
        q == n \div d
        m == n % d
        up == 2 * m > d \/ (2 * m = d /\ q % 2 = 1)
    IN  Norm(IF up THEN q + 1 ELSE q, 100)

---------------------------------------------------------------------------
(* mrjob's JSONProtocol: a line is json.dumps(key) TAB json.dumps(value).  *)

EscapeAtom(c) ==
    IF c = QUOTE THEN <<BSLASH, QUOTE>>
    ELSE IF c = BSLASH THEN <<BSLASH, BSLASH>>
    ELSE IF c = TAB THEN <<BSLASH, "t">>
    ELSE IF c = NL THEN <<BSLASH, "n">>
    ELSE <<c>>

RECURSIVE Escape(_)
Escape(s) == IF s = <<>> THEN <<>> ELSE EscapeAtom(Head(s)) \o Escape(Tail(s))

\* json.dumps of a string, or of None
Dumps(s) ==
    IF s = None THEN <<"n", "u", "l", "l">>
    ELSE <<QUOTE>> \o Escape(s) \o <<QUOTE>>

\* the (key, value) a reducer yields, value = numeral of rank, then rest
Line(key, rank, rest) == [key |-> key, rank |-> rank, rest |-> rest]

\* the text of a line of an output directory, as the next job reads it
RawLine(l) == Dumps(l.key) \o <<TAB>> \o Dumps(<<RankAtom(l.rank)>> \o l.rest)

---------------------------------------------------------------------------
(* The shuffle: values grouped by key, delivered in an unspecified order.  *)

RECURSIVE SetToSeq(_)
SetToSeq(S) ==
    IF S = {} THEN <<>>
    ELSE LET x == CHOOSE y \in S : TRUE IN <<x>> \o SetToSeq(S \ {x})

RECURSIVE Flatten(_)
Flatten(ss) == IF ss = <<>> THEN <<>> ELSE Head(ss) \o Flatten(Tail(ss))

\* the orders in which the positions in S can be delivered
RECURSIVE Orders(_)
Orders(S) ==
    IF S = {} THEN {<<>>}
    ELSE UNION {{<<x>> \o o : o \in Orders(S \ {x})} : x \in S}

Keys(emits) == {emits[j].key : j \in 1..Len(emits)}

\* the emissions of one key, in emission order
Group(emits, key) ==
    LET hits == SelectSeq(emits, LAMBDA e : e.key = key)
    IN  [j \in 1..Len(hits) |-> hits[j]]

\* the values of one key, in emission order
Values(emits, key) ==
    LET g == Group(emits, key) IN [j \in 1..Len(g) |-> g[j].value]

\* the value lists a reducer can be handed for `key`
Deliveries(emits, key) ==
    LET v == Values(emits, key)
    IN  {[j \in 1..Len(v) |-> v[o[j]]] : o \in Orders(1..Len(v))}

\* every way to take one outcome of each reducer call: the lines written
RECURSIVE Combine(_)
Combine(opts) ==
    IF opts = <<>> THEN {{}}
    ELSE {a \cup b : a \in Head(opts), b \in Combine(Tail(opts))}

---------------------------------------------------------------------------
(* PageLinkCalculate.                                                      *)

\* one emission of a mapper; `kind` names the yield statement it comes from
\* and is read by no reducer
Emit(key, value, kind) == [key |-> key, value |-> value, kind |-> kind]

\* PageLinkCalculate.mapper on one document [title, text]
RECURSIVE YieldLinks(_, _)
YieldLinks(title, pages) ==
    IF pages = <<>> THEN <<>>
    ELSE <<Emit(title, Head(pages), "link")>> \o YieldLinks(title, Tail(pages))

PageLinkMapper(doc) ==
    LET title == IF doc.title # None
                 THEN Replace(doc.title, <<SPACE>>, <<USCORE>>)
                 ELSE None
    IN  IF doc.text # None /\ doc.text # <<>>
        THEN YieldLinks(title, ExtractTargets(doc.text))
        ELSE <<>>

\* PageLinkCalculate.reducer
PageLinkReducer(key, values) ==
    {Line(key, <<1, 1>>, <<TAB>> \o Join(values, <<COMMA>>))}

\* the snapshots one run of PageLinkCalculate can write for a corpus
PageLinkOutcomes(corpus) ==
    LET emits == Flatten([j \in 1..Len(corpus) |-> PageLinkMapper(corpus[j])])
        keys == SetToSeq(Keys(emits))
    IN  Combine([j \in 1..Len(keys) |->
                    {PageLinkReducer(keys[j], d) : d \in Deliveries(emits, keys[j])}])

---------------------------------------------------------------------------
(* RankCalculate.                                                          *)

\* the fields RankCalculate.mapper reads from a line
ParseRecord(l) ==
    LET value == Strip(RawLine(l), QUOTE)
        values == Split(value, <<TAB>>)
        links_and_ranks == Split(values[2], <<BSLASH, "t">>)
    IN  [page |-> Strip(values[1], QUOTE),
         rank |-> Strip(links_and_ranks[1], QUOTE),
         has_links |-> Len(links_and_ranks) >= 2,
         links |-> IF Len(links_and_ranks) >= 2 THEN links_and_ranks[2] ELSE <<>>]

RECURSIVE YieldShares(_, _, _)
YieldShares(other_pages, page_rank, count) ==
    IF other_pages = <<>> THEN <<>>
    ELSE <<Emit(Head(other_pages),
                page_rank \o <<TAB, CountAtom(count)>>, "contribution")>>
             \o YieldShares(Tail(other_pages), page_rank, count)

\* RankCalculate.mapper on one line
RankMapper(l) ==
    LET rec == ParseRecord(l)
        page_rank == rec.page \o <<TAB>> \o rec.rank
        other_pages == Split(rec.links, <<COMMA>>)
    IN  <<Emit(rec.page, <<BANG>>, "existence")>>
            \o (IF ~rec.has_links THEN <<>>
                ELSE YieldShares(other_pages, page_rank, Len(other_pages))
                         \o <<Emit(rec.page, <<PIPE>> \o rec.links, "edges")>>)

\* the numerals a run of RankCalculate meets: the ranks of its input, and
\* counts up to the longest value
Numerals(snap) ==
    [ranks |-> {l.rank : l \in snap},
     most |-> Len(Flatten(SetToSeq({l.rest : l \in snap})))]

\* how the loop of RankCalculate.reducer takes a value
TakenAs(v) ==
    IF v[1] = BANG THEN "existence"
    ELSE IF v[1] = PIPE THEN "edges"
    ELSE "contribution"

\* one turn of the loop of RankCalculate.reducer
RankReduceStep(acc, page_with_rank, nums) ==
    LET split == Split(page_with_rank, <<TAB>>)
    IN  IF page_with_rank[1] = BANG
        THEN [acc EXCEPT !.existing_wiki_page = TRUE]
        ELSE IF page_with_rank[1] = PIPE
        THEN [acc EXCEPT !.links = <<TAB>> \o Tail(page_with_rank)]
        ELSE [acc EXCEPT !.sum_share_other_ranks =
                 RAdd(@, RDivInt(ParseFloat(split[2], nums.ranks),
                                 ParseInt(split[3], nums.most)))]

\* the locals of RankCalculate.reducer before its loop
RankReduceStart ==
    [existing_wiki_page |-> FALSE, sum_share_other_ranks |-> <<0, 1>>,
     links |-> <<>>]

\* the loop of RankCalculate.reducer over the values in the order given
RECURSIVE RankReduceLoop(_, _, _)
RankReduceLoop(values, acc, nums) ==
    IF values = <<>> THEN acc
    ELSE RankReduceLoop(Tail(values),
                        RankReduceStep(acc, Head(values), nums), nums)

\* the locals after the loop, for every order of delivery: reach[S] holds
\* them after the values at the positions S have been delivered, built for
\* the sets of k positions from those of k - 1
RECURSIVE RankReduceReach(_, _, _, _)
RankReduceReach(values, nums, k, reach) ==
    IF k > Len(values) THEN reach[1..Len(values)]
    ELSE RankReduceReach(values, nums, k + 1,
             [S \in {T \in SUBSET (1..Len(values)) : Cardinality(T) = k} |->
                 UNION {{RankReduceStep(acc, values[j], nums) :
                            acc \in reach[S \ {j}]} : j \in S}] @@ <<>>)

NewRank(sum_share_other_ranks) ==
    RAdd(RMul(DAMPING_FACTOR, sum_share_other_ranks),
         RSub(<<1, 1>>, DAMPING_FACTOR))

\* the end of RankCalculate.reducer: the lines it yields (none, or one)
RankReduceYield(key, acc) ==
    IF ~acc.existing_wiki_page THEN {}
    ELSE {Line(key, NewRank(acc.sum_share_other_ranks), acc.links)}

\* RankCalculate.reducer on the values in the order given
RankReducer(key, values, nums) ==
    RankReduceYield(key, RankReduceLoop(values, RankReduceStart, nums))

\* what RankCalculate.reducer can yield for a key, over the orders in which
\* its values can be delivered
RankReducerOutcomes(key, values, nums) ==
    {RankReduceYield(key, acc) :
        acc \in RankReduceReach(values, nums, 1, [S \in {{}} |-> {RankReduceStart}])}

\* the emissions of the map phase over a snapshot
RankEmits(snap) ==
    LET ls == SetToSeq(snap)
    IN  Flatten([j \in 1..Len(ls) |-> RankMapper(ls[j])])

\* the snapshots one run of RankCalculate can write from a snapshot
RankOutcomes(snap) ==
    LET emits == RankEmits(snap)
        keys == SetToSeq(Keys(emits))
        nums == Numerals(snap)
    IN  Combine([j \in 1..Len(keys) |->
                    RankReducerOutcomes(keys[j], Values(emits, keys[j]), nums)])

---------------------------------------------------------------------------
(* RankingMapper.                                                          *)

\* RankingMapper._get_page_and_rank on the text of a line
get_page_and_rank(value) ==
    LET tabbed_list == Split(value, <<TAB>>)
        rank_and_links == Strip(tabbed_list[2], QUOTE)
    IN  [rank |-> Split(rank_and_links, <<BSLASH, "t">>)[1],
         page |-> Strip(tabbed_list[1], QUOTE)]

\* RankingMapper.mapper: the (rounded rank, page) it yields
RankingMapperYield(l, ranks) ==
    LET rp == get_page_and_rank(RawLine(l))
    IN  [key |-> Round2(ParseFloat(rp.rank, ranks)), value |-> rp.page]

RankingOutcome(snap) ==
    {RankingMapperYield(l, {m.rank : m \in snap}) : l \in snap}

---------------------------------------------------------------------------
(* The corpus.                                                             *)

LinkA == <<LBRACKET, LBRACKET, "a", PIPE, "x", RBRACKET, RBRACKET>>
LinkQuote == <<LBRACKET, LBRACKET, QUOTE, RBRACKET, RBRACKET>>
LinkComma == <<LBRACKET, LBRACKET, COMMA, RBRACKET, RBRACKET>>

SnippetList == <<LinkA, LinkQuote, LinkComma>>

TitleList == <<None, <<"a">>, <<BANG, "a">>, <<PIPE, "a">>>>

\* the body texts made of n snippets in a row
BodiesOfLen(n) ==
    [k \in 1..(Len(SnippetList) ^ n) |->
        Flatten([j \in 1..n |->
            SnippetList[(((k - 1) \div (Len(SnippetList) ^ (j - 1)))
                            % Len(SnippetList)) + 1]])]

\* body texts: absent, or up to MaxLinks snippets in a row
BodyList == <<None>> \o Flatten([n \in 1..(MaxLinks + 1) |-> BodiesOfLen(n - 1)])

DocList ==
    [k \in 1..(Len(TitleList) * Len(BodyList)) |->
        [title |-> TitleList[((k - 1) % Len(TitleList)) + 1],
         text |-> BodyList[((k - 1) \div Len(TitleList)) + 1]]]

\* the link tokens of a document
LinksIn(doc) == IF doc.text = None THEN 0 ELSE Len(FindAllLinks(doc.text))

\* the ways to go on with at most n documents out of DocList[lo], ... that
\* hold at most `left` link tokens together
RECURSIVE CorporaFrom(_, _, _)
CorporaFrom(lo, n, left) ==
    {<<>>} \cup
    (IF n = 0 THEN {}
     ELSE UNION {{<<DocList[d]>> \o c :
                     c \in CorporaFrom(d, n - 1, left - LinksIn(DocList[d]))} :
                 d \in {e \in lo..Len(DocList) : LinksIn(DocList[e]) <= left}})

\* a corpus is a bag of at most MaxDocs documents with at most MaxLinks link
\* tokens (the order in which the documents are read does not reach the
\* reducers)
Corpora == CorporaFrom(1, MaxDocs, MaxLinks)

---------------------------------------------------------------------------
(* The driver (__main__).                                                  *)

\* range(4)
NumPasses == 4

\* 'out/%d/' % k
DirName(k) == "out/" \o ToString(k) \o "/"

\* a driver whose passes would all read the first snapshot
StaleInputPath(n) == DirName(0)

\* the input_path and output_dir of pass n of RankCalculate
RankInputPath(n) == DirName(n)
RankOutputDir(n) == DirName(n + 1)

\* the input_path of RankingMapper
RankingInputPath == "out/4/"

Dirs == {DirName(k) : k \in 0..NumPasses}

Run(job, input_path, output_dir) ==
    [job |-> job, input_path |-> input_path, output_dir |-> output_dir]

Init ==
    /\ docs \in Corpora
    /\ pc = "pagelink"
    /\ i = 0
    /\ out = [d \in Dirs |-> {}]
    /\ written = {}
    /\ result = {}
    /\ log = <<>>
    /\ link_text = <<>>
    /\ link_out = <<>>

\* pl_job.make_runner('*.xml', 'out/0/'); runner.run()
PageLinkJob ==
    /\ pc = "pagelink"
    /\ \E snap \in PageLinkOutcomes(docs) :
           out' = [out EXCEPT ![DirName(0)] = snap]
    /\ written' = written \cup {DirName(0)}
    /\ log' = Append(log, Run("PageLinkCalculate", "*.xml", DirName(0)))
    /\ pc' = "rank"
    /\ UNCHANGED <<docs, i, result, link_text, link_out>>

\* one turn of `for i in range(4)`:
\* rc_job.make_runner('out/%d/' % i, 'out/%d/' % (i+1)); runner.run()
RankJob ==
    /\ pc = "rank"
    /\ i < NumPasses
    /\ RankInputPath(i) \in written
    /\ \E snap \in RankOutcomes(out[RankInputPath(i)]) :
           out' = [out EXCEPT ![RankOutputDir(i)] = snap]
    /\ written' = written \cup {RankOutputDir(i)}
    /\ log' = Append(log, Run("RankCalculate", RankInputPath(i), RankOutputDir(i)))
    /\ i' = i + 1
    /\ pc' = IF i + 1 < NumPasses THEN "rank" ELSE "ranking"
    /\ UNCHANGED <<docs, result, link_text, link_out>>

\* rm_job.make_runner('out/4/', 'out/result'); runner.run()
RankingJob ==
    /\ pc = "ranking"
    /\ RankingInputPath \in written
    /\ result' = RankingOutcome(out[RankingInputPath])
    /\ log' = Append(log, Run("RankingMapper", RankingInputPath, "out/result"))
    /\ pc' = "done"
    /\ UNCHANGED <<docs, i, out, written, link_text, link_out>>

Next == PageLinkJob \/ RankJob \/ RankingJob

Spec == Init /\ [][Next]_vars

---------------------------------------------------------------------------
(* SpecLink: the link extraction of PageLinkCalculate.mapper on its own,   *)
(* over every short body text and some sample texts.                       *)

LinkChars == {LBRACKET, RBRACKET, PIPE, HASH, COMMA, SPACE, "a"}

\* [[Some_Page|display text]]
SampleSomePage ==
    <<LBRACKET, LBRACKET, "S", "o", "m", "e", USCORE, "P", "a", "g", "e",
      PIPE, "d", "i", "s", "p", "l", "a", "y", SPACE, "t", "e", "x", "t",
      RBRACKET, RBRACKET>>

\* [[Foo, Bar#section]]
SampleFooBar ==
    <<LBRACKET, LBRACKET, "F", "o", "o", COMMA, SPACE, "B", "a", "r", HASH,
      "s", "e", "c", "t", "i", "o", "n", RBRACKET, RBRACKET>>

\* [[R&amp;B]] [[a
\* b]] [a]
SampleMixed ==
    <<LBRACKET, LBRACKET, "R", AMP, "a", "m", "p", ";", "B", RBRACKET,
      RBRACKET, SPACE, LBRACKET, LBRACKET, "a", NL, "b", RBRACKET,
      RBRACKET, SPACE, LBRACKET, "a", RBRACKET>>

SampleTexts == {SampleSomePage, SampleFooBar, SampleMixed}

LinkTexts ==
    SampleTexts \cup UNION {[1..n -> LinkChars] : n \in 0..MaxText}

InitLink ==
    /\ link_text \in LinkTexts
    /\ link_out = <<>>
    /\ pc = "extract"
    /\ docs = <<>>
    /\ i = 0
    /\ out = [d \in Dirs |-> {}]
    /\ written = {}
    /\ result = {}
    /\ log = <<>>

\* links = re.findall(link_pat, text.string) and the loop over the links
ExtractLinks ==
    /\ pc = "extract"
    /\ link_out' = ExtractTargets(link_text)
    /\ pc' = "extracted"
    /\ UNCHANGED <<docs, i, out, written, result, log, link_text>>

NextLink == ExtractLinks

SpecLink == InitLink /\ [][NextLink]_vars

---------------------------------------------------------------------------
(* Properties.                                                             *)

\* the passes of RankCalculate that have run
DonePasses == {k \in 0..(NumPasses - 1) : DirName(k + 1) \in written}

\* snapshot k
Snap(k) == out[DirName(k)]

\* the recorded edge list of a page, as RankCalculate.mapper reads it
EdgesOf(rec) == IF rec.has_links THEN Split(rec.links, <<COMMA>>) ELSE <<>>

\* the page identifiers that have a record in a snapshot
PagesOf(snap) == {ParseRecord(l).page : l \in snap}

\* S(T): over the records P of ls and the occurrences of T in edges(P), the
\* sum of rank(P) / |edges(P)|
RECURSIVE ShareSum(_, _)
ShareSum(ls, T) ==
    IF ls = <<>> THEN <<0, 1>>
    ELSE LET edges == EdgesOf(ParseRecord(Head(ls)))
             n == Cardinality({j \in 1..Len(edges) : edges[j] = T})
         IN  RAdd(IF n = 0 THEN <<0, 1>>
                  ELSE RMul(<<n, 1>>, RDivInt(Head(ls).rank, Len(edges))),
                  ShareSum(Tail(ls), T))

RECURSIVE RankSum(_)
RankSum(ls) ==
    IF ls = <<>> THEN <<0, 1>> ELSE RAdd(Head(ls).rank, RankSum(Tail(ls)))

\* C1: one pass of RankCalculate emits exactly the pages that have a record
\* in its input snapshot, each once: a page without incoming contribution is
\* kept, a page that is only an edge target is not emitted.
C1_OutputPagesAreInputPages ==
    \A k \in DonePasses :
        /\ {l.key : l \in Snap(k + 1)} = PagesOf(Snap(k))
        /\ \A l1, l2 \in Snap(k + 1) : l1.key = l2.key => l1 = l2

\* C2: after one pass the rank of every emitted page T is
\* 0.85 * S(T) + 0.15, S(T) the sum of rank(P) / |edges(P)| over the input
\* pages P and the occurrences of T in edges(P).
C2_NewRankIsDampedShareSum ==
    \A k \in DonePasses : \A l \in Snap(k + 1) :
        l.rank = RAdd(RMul(<<17, 20>>, ShareSum(SetToSeq(Snap(k)), l.key)),
                      <<3, 20>>)

\* whether PageLinkCalculate finds no link to follow in a document
NoLinks(doc) == doc.text = None \/ ExtractTargets(doc.text) = <<>>

\* C3: a document with a title and no body text, or no extractable link,
\* still gets a record in snapshot 0, with rank 1.0 and an empty edge list.
C3_LinklessPageHasRecord ==
    DirName(0) \in written =>
        \A j \in 1..Len(docs) :
            (docs[j].title # None /\ NoLinks(docs[j])) =>
                \E l \in Snap(0) :
                    /\ l.key = Replace(docs[j].title, <<SPACE>>, <<USCORE>>)
                    /\ l.rank = <<1, 1>>
                    /\ l.rest \in {<<>>, <<TAB>>}

\* C4: a document without a title yields nothing, whatever its body, and no
\* record of snapshot 0 has None as its page identifier.
C4_UntitledDocumentDropped ==
    DirName(0) \in written =>
        /\ \A j \in 1..Len(docs) :
               docs[j].title = None => PageLinkMapper(docs[j]) = <<>>
        /\ \A l \in Snap(0) : l.key # None

\* C5: within one pass, for every key, what RankCalculate.reducer yields is
\* the same for every order in which the values of the key are delivered.
C5_ReducerOrderInsensitive ==
    \A k \in DonePasses :
        LET emits == RankEmits(Snap(k))
            nums == Numerals(Snap(k))
        IN  \A key \in Keys(emits) : \A d \in Deliveries(emits, key) :
                RankReducer(key, d, nums)
                    = RankReducer(key, Values(emits, key), nums)

\* C6: after any number of passes every page of the snapshot has the edge
\* list it had in snapshot 0; a pass changes only the rank of a record.
C6_EdgeListsUnchanged ==
    \A k \in 1..NumPasses :
        DirName(k) \in written =>
            \A l \in Snap(k) : \A l0 \in Snap(0) :
                l0.key = l.key => l.rest = l0.rest

\* what the driver is to have run, in order
ExpectedLog ==
    <<Run("PageLinkCalculate", "*.xml", "out/0/"),
      Run("RankCalculate", "out/0/", "out/1/"),
      Run("RankCalculate", "out/1/", "out/2/"),
      Run("RankCalculate", "out/2/", "out/3/"),
      Run("RankCalculate", "out/3/", "out/4/"),
      Run("RankingMapper", "out/4/", "out/result")>>

\* C7: the driver runs PageLinkCalculate once, then RankCalculate four
\* times in sequence, pass i reading snapshot i and writing snapshot i + 1,
\* then RankingMapper once on snapshot 4; a run reads only what an earlier
\* run has finished writing, the snapshot a pass has just written is what
\* RankCalculate makes of the one before, and until all six runs are done
\* the next one can start.
C7_DriverRunsFourPassesInSequence ==
    /\ Len(log) <= Len(ExpectedLog)
    /\ log = SubSeq(ExpectedLog, 1, Len(log))
    /\ \A n \in 1..Len(log) :
           \/ log[n].input_path = "*.xml"
           \/ \E m \in 1..(n - 1) : log[m].output_dir = log[n].input_path
    /\ written = {log[n].output_dir : n \in 1..Len(log)} \ {"out/result"}
    /\ (pc \in {"rank", "ranking"} /\ i >= 1) =>
           Snap(i) \in RankOutcomes(Snap(i - 1))
    /\ pc = "done" => log = ExpectedLog /\ result = RankingOutcome(Snap(4))
    /\ \/ pc = "done"
       \/ pc = "pagelink"
       \/ pc = "rank" /\ i < NumPasses /\ RankInputPath(i) \in written
       \/ pc = "ranking" /\ RankingInputPath \in written

\* the driver has finished all six runs although the first pass already
\* left every rank as it was
C7_Witness ==
    /\ pc = "done"
    /\ Len(log) = 6
    /\ Snap(0) # {}
    /\ Snap(1) = Snap(0)
    /\ Snap(4) = Snap(0)

\* whether every page of a snapshot has rank 1.0 and the same out-degree
\* d > 0, and every edge target has a record
UniformClosed(snap) ==
    /\ \A l \in snap : l.rank = <<1, 1>>
    /\ \E d \in 1..(MaxLinks + 1) :
           \A l \in snap : Len(EdgesOf(ParseRecord(l))) = d
    /\ \A l \in snap :
           LET edges == EdgesOf(ParseRecord(l))
           IN  \A j \in 1..Len(edges) : edges[j] \in PagesOf(snap)

\* C8: from a snapshot of N pages of rank 1.0 with the same out-degree
\* d > 0 and no dangling reference, one pass leaves ranks that sum to N.
C8_MassConserved ==
    \A k \in DonePasses :
        UniformClosed(Snap(k)) =>
            RankSum(SetToSeq(Snap(k + 1))) = <<Cardinality(Snap(k)), 1>>

\* the text of a link token between its opening brackets (two at most) and
\* the first of `]`, `|`, `#`
BeforeDelimiter(token) ==
    LET lead == Min({p \in 1..Len(token) : token[p] # LBRACKET}) - 1
        from == Min({lead, 2}) + 1
        to == Min({q \in from..Len(token) : token[q] \in LinkDelimiters})
    IN  Slice(token, from, to - 1)

\* the same, the first character after the opening brackets taken whatever
\* it is (the one opening bracket of `[[]` left to be that character)
FromFirstCharacter(token) ==
    LET lead == Min({p \in 1..Len(token) : token[p] # LBRACKET}) - 1
        from == Min({lead, 2, Len(token) - 2}) + 1
        to == Min({q \in (from + 1)..Len(token) : token[q] \in LinkDelimiters})
    IN  Slice(token, from, to - 1)

\* whitespace to underscores, then commas out, then the ampersand entity
Normalised(s) ==
    Replace(SelectSeq(SubWhiteSpace(s), LAMBDA c : c # COMMA),
            <<AMP, "a", "m", "p", ";">>, <<AMP>>)

\* the edges of a body text, Target(token) being the target text of a token:
\* one per token, in order, but for the tokens left with an empty target
EdgesVia(Target(_), text) ==
    LET tokens == FindAllLinks(text)
    IN  SelectSeq([j \in 1..Len(tokens) |-> Normalised(Target(tokens[j]))],
                  LAMBDA t : t # <<>>)

C10_ValueKindsNotConfused ==
    \A k \in DonePasses :
        LET emits == RankEmits(Snap(k))
        IN  \A j \in 1..Len(emits) : TakenAs(emits[j].value) = emits[j].kind

=============================================================================
